---- MODULE Spec2Model ----
(***************************************************************************)
(* The card-game engine of Lekato98/cards: the Game aggregate (game.ts),   *)
(* its action validator, and the phase objects that dispatch actions to    *)
(* the Game's business methods.                                            *)
(*                                                                         *)
(* The Game is one record, its fields named as in the class.  Every        *)
(* method is an operator from a game record (and arguments) to an outcome  *)
(* [res, g]: res is "ok" or the error thrown, g the game as the method     *)
(* left it (mutations made before a throw stay made).                      *)
(*                                                                         *)
(* GameSocketService (game.socket.ts), the registry of games and of the    *)
(* users in them, is modelled at the end, one operator per event handler.  *)
(***************************************************************************)
EXTENDS Integers, Sequences, FiniteSets, TLC

\* ---------------------------------------------------------------- constants
MIN_NUMBER_OF_PLAYERS == 3
MAX_NUMBER_OF_PLAYERS == 8
DEFAULT_NUMBER_OF_CARDS_PER_HAND == 4

\* ------------------------------------------------------------------- bounds
\* users beyond the number of seats (so that a full game can be joined)
ExtraUsers == 1
\* cards of the deck beyond those dealt to the hands
PileExtra == 3
\* outcomes of Deck.shuffle that are explored (rotations of the new deck)
NumShuffles == 4
\* ranks of the bounded deck
NumRanks == 5

\* null and undefined of the source; both differ from every id and index
Null == 0 - 1
Undefined == 0 - 2

\* the game is constructed with the smallest number of seats the constructor accepts
maxNumberOfPlayers == MIN_NUMBER_OF_PLAYERS
Seats == 0 .. (maxNumberOfPlayers - 1)
Users == 1 .. (maxNumberOfPlayers + ExtraUsers)
DeckSize == DEFAULT_NUMBER_OF_CARDS_PER_HAND * maxNumberOfPlayers + PileExtra
Cards == 1 .. DeckSize

Action ==
    { "CREATE_GAME", "START_GAME", "PREPARE_ROUND", "START_ROUND", "JOIN_AS_PLAYER",
      "JOIN_AS_SPECTATOR", "DISTRIBUTE_CARD", "SELECT_FIRST_TURN", "PICK_CARD_FROM_PILE",
      "PICK_CARD_FROM_BURNED", "BURN_ONE_HAND_CARD", "BURN_CARD", "THROW_CARD",
      "USE_ABILITY", "EXCHANGE_PICK_WITH_HAND", "EXCHANGE_HAND_WITH_OTHER",
      "SHOW_ONE_HAND_CARD", "SHOW_ONE_OTHER_HAND_CARD", "NEXT_TURN", "PASS", "RESTART",
      "LEAVE", "NO_ACTION", "END_OF_GAME" }

INTERNAL_BASED_ACTION ==
    { "START_GAME", "START_ROUND", "DISTRIBUTE_CARD", "SELECT_FIRST_TURN", "NEXT_TURN" }
USER_BASED_ACTION == { "JOIN_AS_PLAYER", "JOIN_AS_SPECTATOR", "LEAVE" }
LEADER_BASED_ACTIONS == { "START_GAME", "RESTART" }
USER_TURN_BASED_ACTION ==
    { "BURN_CARD", "EXCHANGE_PICK_WITH_HAND", "PASS", "USE_ABILITY", "THROW_CARD",
      "PICK_CARD_FROM_BURNED", "PICK_CARD_FROM_PILE" }

\* the errors of the InvalidAction family, by message; "InvalidAction" is the
\* class itself, thrown by Game.action when the validator refuses
InvalidActionErrors ==
    { "InvalidAction", "Action is not allowed in current state", "Game already started",
      "Burned cards stack is empty", "Unknown ability",
      "Changing card with your self is not allowed", "Pick valid card your turn.",
      "Pick valid card", "Player already joined", "Invalid position or already taken",
      "The game is already full join another game", "Empty pile" }

\* --------------------------------------------------------------------- cards
\* Card.rank and Card.getAbility of the bounded deck
Rank(c) == (c - 1) % NumRanks
Ability(c) ==
    CASE Rank(c) = 0 -> "EXCHANGE_HAND_WITH_OTHER"
      [] Rank(c) = 1 -> "SHOW_ONE_HAND_CARD"
      [] Rank(c) = 2 -> "SHOW_ONE_OTHER_HAND_CARD"
      [] OTHER -> "NO_ABILITY"
equalsRank(c, d) == Rank(c) = Rank(d)

\* new Deck(): the cards in order; Deck.shuffle: one of NumShuffles rotations
NewDeck == [i \in 1 .. DeckSize |-> i]
shuffle(deck, k) == [i \in 1 .. Len(deck) |-> deck[((i - 1 + k) % Len(deck)) + 1]]

\* CardStack / Deck: the top is the end of the sequence
top(s) == s[Len(s)]
pop(s) == SubSeq(s, 1, Len(s) - 1)
put(s, c) == Append(s, c)
isEmpty(s) == Len(s) = 0
\* CardStack.pick takes the top card off; on an empty stack it throws
pickThrows(s) == isEmpty(s)
\* CardHand.getCard: the card of that id, undefined when the hand has none
getCard(hand, cardId) == IF cardId \in hand THEN cardId ELSE Undefined
SeqSet(s) == { s[i] : i \in 1 .. Len(s) }

VARIABLES game, joined

\* The static maps of GameSocketService (game.socket.ts): created lists every
\* Game constructed so far (a Game's id is its place in the list), games is the
\* set of ids under which the registry holds a Game, userGames maps a user to
\* the id of its Game (Null for no entry).  They stay empty while a single
\* Game is driven directly.
VARIABLES created, games, userGames

svars == << created, games, userGames >>
vars == << game, joined, created, games, userGames >>

\* ------------------------------------------------------------- construction
\* constructor + initializePlayers; turn is declared and never assigned
NewGame ==
    [ players |-> [s \in Seats |-> {}],
      deck |-> NewDeck,
      burnedCards |-> << >>,
      pileOfCards |-> << >>,
      passedBy |-> Null,
      turn |-> Undefined,
      state |-> "BeginOfGame",
      isGameStarted |-> FALSE,
      pickedCard |-> Null,
      used |-> {},
      leader |-> Null,
      userPlayer |-> [u \in Users |-> Null] ]

\* path lists the phases the call assigned through setState, in order
Ok(g) == [res |-> "ok", g |-> g, path |-> << >>]
Throw(g, e) == [res |-> e, g |-> g, path |-> << >>]

\* ------------------------------------------------------------------ queries
numberOfPlayers(g) == Cardinality({ u \in Users : g.userPlayer[u] # Null })
isJoinedAsPlayer(g, userId) == userId \in Users /\ g.userPlayer[userId] # Null
isValidPlayer(playerId) == 0 <= playerId /\ playerId < maxNumberOfPlayers
isFull(g) == numberOfPlayers(g) = maxNumberOfPlayers
isLeaderUser(g, userId) == g.leader = userId
\* Player.isOwner: the seat is the one the user is bound to
isOwner(g, seat, userId) == userId \in Users /\ g.userPlayer[userId] = seat
\* players[turn] is undefined while turn is: the call of isOwner throws a TypeError
isUserTurnThrows(g) == g.turn \notin Seats
isUserTurn(g, userId) == isOwner(g, g.turn, userId)
isValidMaxNumberOfPlayers(n) == MIN_NUMBER_OF_PLAYERS <= n /\ n <= MAX_NUMBER_OF_PLAYERS

\* ---------------------------------------------------------------- validator
validateUsingActionBased(g, action, userId) ==
    IF action \in LEADER_BASED_ACTIONS THEN isLeaderUser(g, userId)
    ELSE IF action \in USER_BASED_ACTION THEN userId # Null /\ userId # Undefined
    ELSE IF action \in USER_TURN_BASED_ACTION THEN isUserTurn(g, userId)
    ELSE userId \in {Null, Undefined} /\ action \in INTERNAL_BASED_ACTION
validateThrows(g, action) ==
    /\ action \notin LEADER_BASED_ACTIONS
    /\ action \notin USER_BASED_ACTION
    /\ action \in USER_TURN_BASED_ACTION
    /\ isUserTurnThrows(g)

\* ------------------------------------------------------------------- calls
\* a call of Game.action: the action code and the payload's fields (Undefined
\* when absent), and for START_GAME the outcomes of the two random draws
Call(a, u) ==
    [ action |-> a, userId |-> u, playerId |-> Undefined, cardId |-> Undefined,
      otherPlayerId |-> Undefined, otherCardId |-> Undefined,
      rndTurn |-> Undefined, rndShuffle |-> Undefined ]

RECURSIVE action(_, _)

\* ---------------------------------------------------------- business methods
\* faulty variant: entering RoundStart does not trigger START_ROUND
setState_noRoundStart(g, state) ==
    [Ok([g EXCEPT !.state = state]) EXCEPT !.path = << state >>]

setState(g, state) ==
    LET g1 == [g EXCEPT !.state = state]
        out == IF state = "RoundStart" THEN action(g1, Call("START_ROUND", Undefined))
               ELSE Ok(g1)
    IN  [out EXCEPT !.path = << state >> \o @]

\* faulty variant: the turn index is advanced without wrapping at the seat count
nextTurn_noWrap(g) == [g EXCEPT !.turn = g.turn + 1]

nextTurn(g) == [g EXCEPT !.turn = (g.turn + 1) % maxNumberOfPlayers]

endOfTurn(g) == [g EXCEPT !.pickedCard = Null]

selectFirstTurnAction(g, rndTurn) == [g EXCEPT !.turn = rndTurn]

RECURSIVE dealHand(_, _, _)
dealHand(g, seat, i) ==
    IF i > DEFAULT_NUMBER_OF_CARDS_PER_HAND THEN g
    ELSE dealHand([g EXCEPT !.players[seat] = @ \cup {top(g.deck)}, !.deck = pop(@)],
                  seat, i + 1)

RECURSIVE dealPlayers(_, _)
dealPlayers(g, seat) ==
    IF seat >= maxNumberOfPlayers THEN g ELSE dealPlayers(dealHand(g, seat, 1), seat + 1)

RECURSIVE deckToPile(_)
deckToPile(g) ==
    IF isEmpty(g.deck) THEN g
    ELSE deckToPile([g EXCEPT !.pileOfCards = put(@, top(g.deck)), !.deck = pop(@)])

distributeCardsAction(g) == deckToPile(dealPlayers(g, 0))

\* emits two cards of every hand; the game is not changed
showTwoHandCardsAction(g) == g

startRoundAction(g) == setState(showTwoHandCardsAction(distributeCardsAction(g)), "PickBurn")

\* faulty variant: the start goes to PickBurn at once, without the round start
startGameAction_skipRoundStart(g, c) ==
    IF g.isGameStarted THEN Throw(g, "Game already started")
    ELSE LET g1 == [g EXCEPT !.isGameStarted = TRUE, !.deck = shuffle(@, c.rndShuffle)]
         IN  setState(selectFirstTurnAction(g1, c.rndTurn), "PickBurn")

startGameAction(g, c) ==
    IF g.isGameStarted THEN Throw(g, "Game already started")
    ELSE LET g1 == [g EXCEPT !.isGameStarted = TRUE, !.deck = shuffle(@, c.rndShuffle)]
         IN  setState(selectFirstTurnAction(g1, c.rndTurn), "RoundStart")

\* faulty variant: the card is taken from the bottom of the draw pile
pickCardFromPileAction_bottom(g) ==
    IF pickThrows(g.pileOfCards) THEN Throw(g, "Empty pile")
    ELSE setState([g EXCEPT !.pickedCard = g.pileOfCards[1], !.pileOfCards = Tail(@)],
                  "PilePicked")

\* faulty variant: the card is picked and the phase is left as it was
pickCardFromPileAction_noState(g) ==
    IF pickThrows(g.pileOfCards) THEN Throw(g, "Empty pile")
    ELSE Ok([g EXCEPT !.pickedCard = top(g.pileOfCards), !.pileOfCards = pop(@)])

pickCardFromPileAction(g) ==
    IF pickThrows(g.pileOfCards) THEN Throw(g, "Empty pile")
    ELSE setState([g EXCEPT !.pickedCard = top(g.pileOfCards), !.pileOfCards = pop(@)],
                  "PilePicked")

\* faulty variant: the phase is assigned before the card is picked
pickCardFromBurnedAction_stateFirst(g) ==
    IF pickThrows(g.burnedCards) THEN Throw([g EXCEPT !.state = "BurnedPicked"], "Empty pile")
    ELSE setState([g EXCEPT !.pickedCard = top(g.burnedCards), !.burnedCards = pop(@)],
                  "BurnedPicked")

pickCardFromBurnedAction(g) ==
    IF pickThrows(g.burnedCards) THEN Throw(g, "Empty pile")
    ELSE setState([g EXCEPT !.pickedCard = top(g.burnedCards), !.burnedCards = pop(@)],
                  "BurnedPicked")

\* faulty variant: the penalty branch adds the top burned card to the hand without
\* taking it off the burn pile (top instead of pick)
burnOneHandCardAction_peek(g, userId, cardId) ==
    IF isEmpty(g.burnedCards) THEN Throw(g, "Burned cards stack is empty")
    ELSE IF ~isJoinedAsPlayer(g, userId) THEN Throw(g, "TypeError")
    ELSE LET seat == g.userPlayer[userId]
             topBurnedCard == top(g.burnedCards)
             card == getCard(g.players[seat], cardId)
         IN  IF card = Undefined THEN Throw(g, "TypeError")
             ELSE IF equalsRank(card, topBurnedCard)
             THEN setState([g EXCEPT !.players[seat] = @ \ {card},
                                     !.burnedCards = put(@, card)], "EndRound")
             ELSE setState([g EXCEPT !.players[seat] = @ \cup {topBurnedCard}], "EndRound")

burnOneHandCardAction(g, userId, cardId) ==
    IF isEmpty(g.burnedCards) THEN Throw(g, "Burned cards stack is empty")
    ELSE IF ~isJoinedAsPlayer(g, userId) THEN Throw(g, "TypeError")
    ELSE LET seat == g.userPlayer[userId]
             topBurnedCard == top(g.burnedCards)
             card == getCard(g.players[seat], cardId)
         IN  IF card = Undefined THEN Throw(g, "TypeError")
             ELSE IF equalsRank(card, topBurnedCard)
             THEN setState([g EXCEPT !.players[seat] = @ \ {card},
                                     !.burnedCards = put(@, card)], "EndRound")
             ELSE setState([g EXCEPT !.players[seat] = @ \cup {topBurnedCard},
                                     !.burnedCards = pop(@)], "EndRound")

\* faulty variant: the picked card is not marked as used
useAbilityAction_noMark(g) ==
    IF g.pickedCard = Null THEN Throw(g, "TypeError")
    ELSE LET cardAbility == Ability(g.pickedCard)
         IN  CASE cardAbility = "EXCHANGE_HAND_WITH_OTHER" -> setState(g, "ExchangeHandWithOther")
               [] cardAbility = "SHOW_ONE_HAND_CARD" -> setState(g, "ShowOneHandCard")
               [] cardAbility = "SHOW_ONE_OTHER_HAND_CARD" -> setState(g, "ShowOneOtherHandCard")
               [] cardAbility = "NO_ABILITY" -> setState(g, "Burn")
               [] OTHER -> Throw(g, "Unknown ability")

useAbilityAction(g) ==
    IF g.pickedCard = Null THEN Throw(g, "TypeError")
    ELSE LET cardAbility == Ability(g.pickedCard)
             g1 == [g EXCEPT !.used = @ \cup {g.pickedCard}]
         IN  CASE cardAbility = "EXCHANGE_HAND_WITH_OTHER" -> setState(g1, "ExchangeHandWithOther")
               [] cardAbility = "SHOW_ONE_HAND_CARD" -> setState(g1, "ShowOneHandCard")
               [] cardAbility = "SHOW_ONE_OTHER_HAND_CARD" -> setState(g1, "ShowOneOtherHandCard")
               [] cardAbility = "NO_ABILITY" -> setState(g1, "Burn")
               [] OTHER -> Throw(g1, "Unknown ability")

\* the swap exchanges two local variables; neither the hand nor pickedCard is written
exchangePickWithHandAction(g, userId, cardId) ==
    IF ~isJoinedAsPlayer(g, userId) THEN Throw(g, "TypeError") ELSE setState(g, "Burn")

exchangeHandWithOther(g, userId, cardId, otherPlayerId, otherCardId) ==
    IF isValidPlayer(otherPlayerId)
    THEN IF ~isJoinedAsPlayer(g, userId) THEN Throw(g, "TypeError")
         ELSE IF g.userPlayer[userId] = otherPlayerId
         THEN Throw(g, "Changing card with your self is not allowed")
         ELSE setState(g, "Burn")
    ELSE Throw(g, "Pick valid card your turn.")

showOneHandCardAction(g, userId, cardId) ==
    IF ~isJoinedAsPlayer(g, userId) THEN Throw(g, "TypeError") ELSE setState(g, "Burn")

showOneOtherHandCardAction(g, userId, otherPlayerId, otherCardId) ==
    IF isValidPlayer(otherPlayerId) THEN setState(g, "Burn") ELSE Throw(g, "Pick valid card")

passAction(g) == [g EXCEPT !.passedBy = g.turn]

endGameAction(g) == g

\* faulty variant: the check of a full game is left out
joinAsPlayerAction_noFullCheck(g, userId, playerId) ==
    IF isJoinedAsPlayer(g, userId) THEN Throw(g, "Player already joined")
    ELSE IF ~isValidPlayer(playerId) THEN Throw(g, "Invalid position or already taken")
    ELSE Ok([g EXCEPT !.leader = IF numberOfPlayers(g) = 0 THEN userId ELSE @,
                      !.userPlayer[userId] = playerId])

\* faulty variant: the user is bound to the seat before the checks are made
joinAsPlayerAction_seatFirst(g, userId, playerId) ==
    LET g1 == [g EXCEPT !.userPlayer[userId] = playerId]
    IN  IF ~isValidPlayer(playerId) THEN Throw(g1, "Invalid position or already taken")
        ELSE IF isFull(g) THEN Throw(g1, "The game is already full join another game")
        ELSE Ok([g1 EXCEPT !.leader = IF numberOfPlayers(g) = 0 THEN userId ELSE @])

\* faulty variant: every join makes the joining user the leader
joinAsPlayerAction_lastLeader(g, userId, playerId) ==
    IF isJoinedAsPlayer(g, userId) THEN Throw(g, "Player already joined")
    ELSE IF ~isValidPlayer(playerId) THEN Throw(g, "Invalid position or already taken")
    ELSE IF isFull(g) THEN Throw(g, "The game is already full join another game")
    ELSE Ok([g EXCEPT !.leader = userId, !.userPlayer[userId] = playerId])

joinAsPlayerAction(g, userId, playerId) ==
    IF isJoinedAsPlayer(g, userId) THEN Throw(g, "Player already joined")
    ELSE IF ~isValidPlayer(playerId) THEN Throw(g, "Invalid position or already taken")
    ELSE IF isFull(g) THEN Throw(g, "The game is already full join another game")
    ELSE Ok([g EXCEPT !.leader = IF numberOfPlayers(g) = 0 THEN userId ELSE @,
                      !.userPlayer[userId] = playerId])

\* ------------------------------------------------------------------- phases
NotAllowed(g) == Throw(g, "Action is not allowed in current state")

BeginOfGameAction(g, c) ==
    IF c.action = "START_GAME" THEN startGameAction(g, c) ELSE NotAllowed(g)

RoundStartAction(g, c) ==
    IF c.action = "START_ROUND" THEN startRoundAction(g) ELSE NotAllowed(g)

PickBurnAction(g, c) ==
    CASE c.action = "PICK_CARD_FROM_PILE" -> pickCardFromPileAction(g)
      [] c.action = "PICK_CARD_FROM_BURNED" -> pickCardFromBurnedAction(g)
      [] OTHER -> NotAllowed(g)

PilePickedAction(g, c) ==
    IF c.action = "USE_ABILITY" THEN useAbilityAction(g) ELSE NotAllowed(g)

BurnedPickedAction(g, c) ==
    IF c.action = "USE_ABILITY" THEN useAbilityAction(g) ELSE NotAllowed(g)

ExchangeHandWithOtherAction(g, c) ==
    IF c.action = "EXCHANGE_HAND_WITH_OTHER"
    THEN exchangeHandWithOther(g, c.userId, c.cardId, c.otherPlayerId, c.otherCardId)
    ELSE NotAllowed(g)

ShowOneHandCardAction(g, c) ==
    IF c.action = "SHOW_ONE_HAND_CARD" THEN showOneHandCardAction(g, c.userId, c.cardId)
    ELSE NotAllowed(g)

ShowOneOtherHandCardAction(g, c) ==
    IF c.action = "SHOW_ONE_OTHER_HAND_CARD"
    THEN showOneOtherHandCardAction(g, c.userId, c.otherPlayerId, c.otherCardId)
    ELSE NotAllowed(g)

\* faulty variant: the Burn phase also lets PASS through
BurnAction_alsoPass(g, c) ==
    CASE c.action = "BURN_CARD" -> burnOneHandCardAction(g, c.userId, c.cardId)
      [] c.action = "PASS" -> Ok(passAction(g))
      [] OTHER -> NotAllowed(g)

\* Burn.action: BURN_CARD runs the Game's burn method on the payload's user and card
BurnAction(g, c) ==
    IF c.action = "BURN_CARD" THEN burnOneHandCardAction(g, c.userId, c.cardId)
    ELSE NotAllowed(g)

EndRoundAction(g, c) ==
    CASE c.action = "NEXT_TURN" -> setState(nextTurn(endOfTurn(g)), "PickBurn")
      [] c.action = "END_OF_GAME" -> setState(endGameAction(g), "EndOfGame")
      [] OTHER -> NotAllowed(g)

EndOfGameAction(g, c) ==
    IF c.action = "END_OF_GAME" THEN Ok(endGameAction(g)) ELSE NotAllowed(g)

\* this.state.action(this, action, payload)
stateAction(g, c) ==
    CASE g.state = "BeginOfGame" -> BeginOfGameAction(g, c)
      [] g.state = "RoundStart" -> RoundStartAction(g, c)
      [] g.state = "PickBurn" -> PickBurnAction(g, c)
      [] g.state = "PilePicked" -> PilePickedAction(g, c)
      [] g.state = "BurnedPicked" -> BurnedPickedAction(g, c)
      [] g.state = "ExchangeHandWithOther" -> ExchangeHandWithOtherAction(g, c)
      [] g.state = "ShowOneHandCard" -> ShowOneHandCardAction(g, c)
      [] g.state = "ShowOneOtherHandCard" -> ShowOneOtherHandCardAction(g, c)
      [] g.state = "Burn" -> BurnAction(g, c)
      [] g.state = "EndRound" -> EndRoundAction(g, c)
      [] g.state = "EndOfGame" -> EndOfGameAction(g, c)

\* Game.action, the entry point (doAction)
action(g, c) ==
    IF validateThrows(g, c.action) THEN Throw(g, "TypeError")
    ELSE IF ~validateUsingActionBased(g, c.action, c.userId) THEN Throw(g, "InvalidAction")
    ELSE IF c.action = "JOIN_AS_PLAYER" THEN joinAsPlayerAction(g, c.userId, c.playerId)
    ELSE stateAction(g, c)

\* ------------------------------------------------------------------ inputs
\* the actor of a call: a user, or none (a call made by the engine itself)
Actors == Users \cup {Undefined}
\* a seat index of a payload: a seat, one past the last seat, or absent
SeatInputs == Seats \cup {maxNumberOfPlayers, Undefined}
SeatOf(g, u) == IF u \in Users THEN g.userPlayer[u] ELSE Null
Hand(g, seat) == IF seat \in Seats THEN g.players[seat] ELSE {}
\* the cards a BURN_CARD names: any card of the actor's hand, or none
HandInputs(g, seat) == Hand(g, seat) \cup {Undefined}
\* the card the other card-naming actions name: the lowest of the hand, if any
\* (their handlers look the card up and make no use of it)
ACard(g, seat) ==
    IF Hand(g, seat) = {} THEN Undefined
    ELSE CHOOSE x \in Hand(g, seat) : \A y \in Hand(g, seat) : x <= y

SimpleCalls(a) == { Call(a, u) : u \in Actors }
JoinCalls ==
    { [Call("JOIN_AS_PLAYER", u) EXCEPT !.playerId = p] : u \in Actors, p \in SeatInputs }
\* the random draws matter only to a START_GAME that the validator lets through
StartCalls(g) ==
    { [Call("START_GAME", u) EXCEPT !.rndTurn = t, !.rndShuffle = k] :
        u \in {v \in Actors : isLeaderUser(g, v)}, t \in Seats, k \in 0 .. (NumShuffles - 1) }
      \cup { [Call("START_GAME", u) EXCEPT !.rndTurn = 0, !.rndShuffle = 0] :
               u \in {v \in Actors : ~isLeaderUser(g, v)} }
BurnCalls(g) ==
    UNION { { [Call("BURN_CARD", u) EXCEPT !.cardId = x] : x \in HandInputs(g, SeatOf(g, u)) } :
            u \in Actors }
CardCalls(g, a) == { [Call(a, u) EXCEPT !.cardId = ACard(g, SeatOf(g, u))] : u \in Actors }
ExchangeCalls(g) ==
    { [Call("EXCHANGE_HAND_WITH_OTHER", u) EXCEPT !.cardId = ACard(g, SeatOf(g, u)),
          !.otherPlayerId = p, !.otherCardId = ACard(g, p)] : u \in Actors, p \in SeatInputs }
ShowOtherCalls(g) ==
    { [Call("SHOW_ONE_OTHER_HAND_CARD", u) EXCEPT !.otherPlayerId = p,
          !.otherCardId = ACard(g, p)] : u \in Actors, p \in SeatInputs }
InternalCalls == UNION { SimpleCalls(a) : a \in INTERNAL_BASED_ACTION \ {"START_GAME"} }
OtherActions ==
    { "CREATE_GAME", "PREPARE_ROUND", "JOIN_AS_SPECTATOR", "BURN_ONE_HAND_CARD",
      "THROW_CARD", "RESTART", "NO_ACTION", "END_OF_GAME" }
OtherCalls == UNION { SimpleCalls(a) : a \in OtherActions }

\* every call the model makes in a state
Calls(g) ==
    JoinCalls \cup StartCalls(g) \cup SimpleCalls("PICK_CARD_FROM_PILE")
        \cup SimpleCalls("PICK_CARD_FROM_BURNED") \cup SimpleCalls("USE_ABILITY")
        \cup BurnCalls(g) \cup CardCalls(g, "EXCHANGE_PICK_WITH_HAND")
        \cup ExchangeCalls(g) \cup CardCalls(g, "SHOW_ONE_HAND_CARD") \cup ShowOtherCalls(g)
        \cup SimpleCalls("PASS") \cup SimpleCalls("LEAVE") \cup InternalCalls \cup OtherCalls

\* ------------------------------------------------------------------ actions
NoService ==
    /\ created = << >>
    /\ games = {}
    /\ userGames = [u \in Users |-> Null]

Init ==
    /\ game = NewGame
    /\ joined = {}
    /\ NoService

\* Each action is one call of Game.action (doAction) with the game left as the
\* call left it; joined collects the users whose JOIN_AS_PLAYER returned
\* without an error.
JoinAsPlayer ==
    \E c \in JoinCalls :
        /\ game' = action(game, c).g
        /\ joined' = IF action(game, c).res = "ok" THEN joined \cup {c.userId} ELSE joined
        /\ UNCHANGED svars
StartGame ==
    \E c \in StartCalls(game) : game' = action(game, c).g /\ UNCHANGED << joined, svars >>
PickCardFromPile ==
    \E c \in SimpleCalls("PICK_CARD_FROM_PILE") : game' = action(game, c).g /\ UNCHANGED << joined, svars >>
PickCardFromBurned ==
    \E c \in SimpleCalls("PICK_CARD_FROM_BURNED") : game' = action(game, c).g /\ UNCHANGED << joined, svars >>
UseAbility ==
    \E c \in SimpleCalls("USE_ABILITY") : game' = action(game, c).g /\ UNCHANGED << joined, svars >>
BurnCard ==
    \E c \in BurnCalls(game) : game' = action(game, c).g /\ UNCHANGED << joined, svars >>
ExchangePickWithHand ==
    \E c \in CardCalls(game, "EXCHANGE_PICK_WITH_HAND") :
        game' = action(game, c).g /\ UNCHANGED << joined, svars >>
ExchangeHandWithOther ==
    \E c \in ExchangeCalls(game) : game' = action(game, c).g /\ UNCHANGED << joined, svars >>
ShowOneHandCard ==
    \E c \in CardCalls(game, "SHOW_ONE_HAND_CARD") :
        game' = action(game, c).g /\ UNCHANGED << joined, svars >>
ShowOneOtherHandCard ==
    \E c \in ShowOtherCalls(game) : game' = action(game, c).g /\ UNCHANGED << joined, svars >>
Pass ==
    \E c \in SimpleCalls("PASS") : game' = action(game, c).g /\ UNCHANGED << joined, svars >>
Leave ==
    \E c \in SimpleCalls("LEAVE") : game' = action(game, c).g /\ UNCHANGED << joined, svars >>
InternalAction ==
    \E c \in InternalCalls : game' = action(game, c).g /\ UNCHANGED << joined, svars >>
OtherAction ==
    \E c \in OtherCalls : game' = action(game, c).g /\ UNCHANGED << joined, svars >>

Next ==
    \/ JoinAsPlayer
    \/ StartGame
    \/ PickCardFromPile
    \/ PickCardFromBurned
    \/ UseAbility
    \/ BurnCard
    \/ ExchangePickWithHand
    \/ ExchangeHandWithOther
    \/ ShowOneHandCard
    \/ ShowOneOtherHandCard
    \/ Pass
    \/ Leave
    \/ InternalAction
    \/ OtherAction

Spec == Init /\ [][Next]_vars

\* ---------------------------------------------------------- the burn harness
\* No sequence of calls puts a card on the burn pile (only a burn does, and it
\* needs a card there), so the burn itself is exercised from a game that was
\* joined, started and dealt by the calls above and whose burn pile was then
\* filled through the Game's public piles: the top n cards of the draw pile are
\* put on the burn pile and the phase is Burn.
RECURSIVE applyCalls(_, _)
applyCalls(g, cs) == IF cs = << >> THEN g ELSE applyCalls(action(g, Head(cs)).g, Tail(cs))

FullGameStarted(t, k) ==
    applyCalls(NewGame,
        [i \in 1 .. maxNumberOfPlayers |->
            [Call("JOIN_AS_PLAYER", i) EXCEPT !.playerId = i - 1]]
        \o << [Call("START_GAME", 1) EXCEPT !.rndTurn = t, !.rndShuffle = k] >>)

RECURSIVE pileToBurned(_, _)
pileToBurned(g, n) ==
    IF n = 0 THEN g
    ELSE pileToBurned([g EXCEPT !.burnedCards = put(@, top(g.pileOfCards)),
                                !.pileOfCards = pop(@)], n - 1)

InitBurn ==
    \E t \in Seats, k \in 0 .. (NumShuffles - 1), n \in 1 .. PileExtra :
        /\ game = [pileToBurned(FullGameStarted(t, k), n) EXCEPT !.state = "Burn"]
        /\ joined = 1 .. maxNumberOfPlayers
        /\ NoService

SpecBurn == InitBurn /\ [][Next]_vars

\* ================================================================== claims
\* ---- helpers of the claims' statements
Occupants(g, seat) == { u \in Users : g.userPlayer[u] = seat }
Occupied(g, seat) == Occupants(g, seat) # {}
AllSeatsFilled(g) == \A seat \in Seats : Occupied(g, seat)
Rejected(g, c) == action(g, c).res # "ok" /\ action(g, c).g = g
Accepted(g, c) == action(g, c).res = "ok"
\* P holds of every call of Calls(g), taken one kind of call after the other
EachCall(g, P(_)) ==
    /\ \A c \in JoinCalls : P(c)
    /\ \A c \in StartCalls(g) : P(c)
    /\ \A c \in SimpleCalls("PICK_CARD_FROM_PILE") : P(c)
    /\ \A c \in SimpleCalls("PICK_CARD_FROM_BURNED") : P(c)
    /\ \A c \in SimpleCalls("USE_ABILITY") : P(c)
    /\ \A c \in BurnCalls(g) : P(c)
    /\ \A c \in CardCalls(g, "EXCHANGE_PICK_WITH_HAND") : P(c)
    /\ \A c \in ExchangeCalls(g) : P(c)
    /\ \A c \in CardCalls(g, "SHOW_ONE_HAND_CARD") : P(c)
    /\ \A c \in ShowOtherCalls(g) : P(c)
    /\ \A c \in SimpleCalls("PASS") : P(c)
    /\ \A c \in SimpleCalls("LEAVE") : P(c)
    /\ \A c \in InternalCalls : P(c)
    /\ \A c \in OtherCalls : P(c)
RECURSIVE HandCount(_, _)
HandCount(g, seat) ==
    IF seat >= maxNumberOfPlayers THEN 0
    ELSE Cardinality(g.players[seat]) + HandCount(g, seat + 1)
HeldCards(g) ==
    SeqSet(g.deck) \cup SeqSet(g.pileOfCards) \cup SeqSet(g.burnedCards)
        \cup UNION { g.players[seat] : seat \in Seats }
HeldCount(g) == Len(g.deck) + Len(g.pileOfCards) + Len(g.burnedCards) + HandCount(g, 0)

\* C1: in every reachable state the deck, the draw pile, the burn pile and the
\* hands together hold every card of the configured set exactly once.
C1_CardConservation == HeldCards(game) = Cards /\ HeldCount(game) = DeckSize

IsCurrentTurnUser(g, u) == g.turn \in Seats /\ u \in Occupants(g, g.turn)
\* C2: in every reachable state, a turn-based action whose actor is not the user
\* at the current turn index, and a leader-based action whose actor is not the
\* leader, is rejected with an error of the invalid-action family and leaves the
\* game unchanged.
C2_Authorization ==
    \A c \in Calls(game) :
        (\/ c.action \in USER_TURN_BASED_ACTION /\ ~IsCurrentTurnUser(game, c.userId)
         \/ c.action \in LEADER_BASED_ACTIONS /\ c.userId # game.leader)
        => action(game, c).res \in InvalidActionErrors /\ action(game, c).g = game

\* C6: in every reachable state each seat is bound to at most one user (a join
\* that names a seat bound to another user is rejected).
C6_SeatExclusivity ==
    /\ \A seat \in Seats : Cardinality(Occupants(game, seat)) <= 1
    /\ \A c \in JoinCalls :
           (c.playerId \in Seats /\ Occupants(game, c.playerId) \ {c.userId} # {})
           => Rejected(game, c)

\* C8: once the game has started, the turn index lies in [0, seatCount) and
\* indexes a seat that is bound to a user.
C8_TurnIndexValid ==
    game.isGameStarted => game.turn \in Seats /\ Occupied(game, game.turn)

\* C10: the picked card is null in BeginOfGame, RoundStart, PickBurn, Burn,
\* EndRound and EndOfGame.
C10_PickedCardOnlyWhilePicked ==
    game.state \in {"BeginOfGame", "RoundStart", "PickBurn", "Burn", "EndRound", "EndOfGame"}
    => game.pickedCard = Null

\* C4: after START_GAME in a game with all seats filled the game can always go
\* on until EndOfGame: no reachable phase before EndOfGame is one in which every
\* call of every user is rejected (such a phase is never left), and in Burn a
\* BURN_CARD can be accepted.
C4_Progress ==
    (game.isGameStarted /\ AllSeatsFilled(game) /\ game.state # "EndOfGame")
    => /\ \E c \in Calls(game) : Accepted(game, c)
       /\ game.state = "Burn" => \E c \in BurnCalls(game) : Accepted(game, c)

SeatedCount(g) == Cardinality({ seat \in Seats : Occupied(g, seat) })
StartedAndDealt(g) ==
    /\ g.isGameStarted
    /\ g.turn \in Seats
    /\ g.state = "PickBurn"
    /\ isEmpty(g.deck)
    /\ isEmpty(g.burnedCards)
    /\ \A seat \in Seats :
           Cardinality(g.players[seat]) =
               IF Occupied(g, seat) THEN DEFAULT_NUMBER_OF_CARDS_PER_HAND ELSE 0
    /\ Len(g.pileOfCards) = DeckSize - DEFAULT_NUMBER_OF_CARDS_PER_HAND * SeatedCount(g)
    /\ SeqSet(g.pileOfCards) = Cards \ UNION { g.players[seat] : seat \in Seats }
\* C9: an accepted START_GAME in BeginOfGame leaves started = true, a turn index
\* in [0, seatCount), phase PickBurn, an empty deck, 4 cards in the hand of every
\* seated player and none in an unoccupied seat, an empty burn pile and the rest
\* of the card set in the draw pile; a started game accepts no START_GAME.
C9_StartAndDeal ==
    [][ /\ \A c \in StartCalls(game) :
               (game.state = "BeginOfGame" /\ Accepted(game, c) /\ game' = action(game, c).g)
               => StartedAndDealt(game')
        /\ game.isGameStarted => \A c \in StartCalls(game) : ~Accepted(game, c) ]_vars

BurnEffect(g, h, c) ==
    LET seat == SeatOf(g, c.userId)
        topBurnedCard == top(g.burnedCards)
    IN  /\ h.state = "EndRound"
        /\ IF Rank(c.cardId) = Rank(topBurnedCard)
           THEN /\ h.players[seat] = g.players[seat] \ {c.cardId}
                /\ h.burnedCards = Append(g.burnedCards, c.cardId)
                /\ Cardinality(h.players[seat]) = Cardinality(g.players[seat]) - 1
                /\ Len(h.burnedCards) = Len(g.burnedCards) + 1
           ELSE /\ h.players[seat] = g.players[seat] \cup {topBurnedCard}
                /\ c.cardId \in h.players[seat]
                /\ h.burnedCards = SubSeq(g.burnedCards, 1, Len(g.burnedCards) - 1)
                /\ Cardinality(h.players[seat]) = Cardinality(g.players[seat]) + 1
                /\ Len(h.burnedCards) = Len(g.burnedCards) - 1
\* C5: when BURN_CARD is accepted in the Burn phase with a non-empty burn pile
\* and a card of the actor's hand: if the card's rank equals the rank of the top
\* burned card, the card leaves the hand and becomes the top of the burn pile;
\* otherwise the top burned card moves into the hand and the named card stays;
\* either way the phase becomes EndRound.
C5_BurnLegality ==
    [][ \A c \in BurnCalls(game) :
            (/\ game.state = "Burn"
             /\ ~isEmpty(game.burnedCards)
             /\ c.cardId \in Hand(game, SeatOf(game, c.userId))
             /\ Accepted(game, c)
             /\ game' = action(game, c).g)
            => BurnEffect(game, game', c) ]_vars
\* a burn of a matching card has been accepted: EndRound with a hand one short
C5_Witness ==
    /\ game.state = "EndRound"
    /\ \E seat \in Seats :
           Cardinality(game.players[seat]) = DEFAULT_NUMBER_OF_CARDS_PER_HAND - 1

PhaseAccepts(state) ==
    CASE state = "BeginOfGame" -> {"START_GAME"}
      [] state = "RoundStart" -> {"START_ROUND"}
      [] state = "PickBurn" -> {"PICK_CARD_FROM_PILE", "PICK_CARD_FROM_BURNED"}
      [] state \in {"PilePicked", "BurnedPicked"} -> {"USE_ABILITY"}
      [] state = "ExchangeHandWithOther" -> {"EXCHANGE_HAND_WITH_OTHER"}
      [] state = "ShowOneHandCard" -> {"SHOW_ONE_HAND_CARD"}
      [] state = "ShowOneOtherHandCard" -> {"SHOW_ONE_OTHER_HAND_CARD"}
      [] state = "Burn" -> {"BURN_CARD"}
      [] state = "EndRound" -> {"NEXT_TURN", "END_OF_GAME"}
      [] state = "EndOfGame" -> {"END_OF_GAME"}
PassesValidator(g, c) ==
    ~validateThrows(g, c.action) /\ validateUsingActionBased(g, c.action, c.userId)
\* C3: in every phase, a call of an action other than join/leave that the phase
\* does not accept in the phase graph is rejected and leaves the game unchanged;
\* when the actor passes the validator the error is the phase's own, 'Action is
\* not allowed in current state'.
C3_PhaseGating ==
    [] EachCall(game, LAMBDA c :
           (c.action \notin {"JOIN_AS_PLAYER", "LEAVE"}
            /\ c.action \notin PhaseAccepts(game.state))
           => LET out == action(game, c)
              IN  /\ out.res # "ok" /\ out.g = game
                  /\ PassesValidator(game, c)
                     => out.res = "Action is not allowed in current state")
\* in Burn, a call that passes the validator and is not BURN_CARD meets the gate
C3_Witness ==
    /\ game.state = "Burn"
    /\ \E c \in Calls(game) :
           /\ c.action \notin {"JOIN_AS_PLAYER", "LEAVE", "BURN_CARD"}
           /\ c.userId \in Users
           /\ PassesValidator(game, c)
           /\ action(game, c).res = "Action is not allowed in current state"

\* C7: a JOIN_AS_PLAYER by a user who is already seated, with a seat index outside
\* [0, maxPlayers), or on a full game is rejected with an invalid-action error and
\* leaves the game unchanged; the seated count never exceeds maxPlayers; isFull()
\* is true exactly when the number of distinct successfully joined users equals
\* maxPlayers.
C7_JoinLimits ==
    /\ \A c \in JoinCalls :
           (\/ c.userId \in joined
            \/ c.playerId \notin Seats
            \/ Cardinality(joined) = maxNumberOfPlayers)
           => action(game, c).res \in InvalidActionErrors /\ action(game, c).g = game
    /\ numberOfPlayers(game) <= maxNumberOfPlayers
    /\ Cardinality(joined) <= maxNumberOfPlayers
    /\ isFull(game) <=> Cardinality(joined) = maxNumberOfPlayers
\* a full game refuses a user who is not seated and names a seat of the game
C7_Witness ==
    /\ isFull(game)
    /\ \E c \in JoinCalls :
           /\ c.userId \in Users \ joined
           /\ c.playerId \in Seats
           /\ action(game, c).res = "The game is already full join another game"
           /\ action(game, c).g = game

C12_LeaderSetOnce ==
    [][ /\ game.leader = Null <=> joined = {}
        /\ game.leader # Null => game'.leader = game.leader
        /\ (game.leader = Null /\ joined' # joined) => joined' = {game'.leader}
        /\ (game.leader = Null /\ joined' = joined) => game'.leader = Null ]_vars
\* a started game in which other users joined after the leader, and cards were picked
C12_Witness ==
    /\ game.leader \in joined
    /\ Cardinality(joined) >= 2
    /\ game.isGameStarted
    /\ game.state = "Burn"
    /\ \E c \in JoinCalls : c.userId \notin joined /\ Accepted(game, c)

\* the number of times the phase changed during the call: the changes along the
\* phase before the call followed by the phases the call assigned
RECURSIVE Changes(_)
Changes(ps) ==
    IF Len(ps) < 2 THEN 0
    ELSE (IF ps[1] # ps[2] THEN 1 ELSE 0) + Changes(Tail(ps))
PhaseChanges(g, c) == Changes(<< g.state >> \o action(g, c).path)
C14_TurnMonotonic ==
    \A c \in Calls(game) :
        /\ (game.isGameStarted /\ action(game, c).g.turn # game.turn)
           => action(game, c).g.turn = (game.turn + 1) % maxNumberOfPlayers
        /\ (c.action \in INTERNAL_BASED_ACTION \ {"START_GAME"} /\ c.userId \in Users)
           => action(game, c).res = "InvalidAction" /\ action(game, c).g = game
        /\ (game.isGameStarted /\ c.userId \in Users) => action(game, c).g.turn = game.turn
\* at the end of the last seat's round the NEXT_TURN without a user id wraps the
\* turn to seat 0, and the same action from the user at turn is refused
C14_Witness ==
    /\ game.state = "EndRound"
    /\ game.turn = maxNumberOfPlayers - 1
    /\ \E c \in SimpleCalls("NEXT_TURN") :
           /\ c.userId = Undefined
           /\ Accepted(game, c)
           /\ action(game, c).g.turn = 0
    /\ \E c \in SimpleCalls("NEXT_TURN") :
           IsCurrentTurnUser(game, c.userId) /\ Rejected(game, c)

\* C15: in PickBurn with a non-empty draw pile, PICK_CARD_FROM_PILE by the user
\* at the current turn is accepted; afterwards the phase is PilePicked, the draw
\* pile is the old one without its top card, the picked card is that top card,
\* and the turn index, the burn pile and every hand are unchanged.
C15_PickFromPile ==
    \A c \in SimpleCalls("PICK_CARD_FROM_PILE") :
        (/\ game.state = "PickBurn"
         /\ ~isEmpty(game.pileOfCards)
         /\ IsCurrentTurnUser(game, c.userId))
        => LET h == action(game, c).g
           IN  /\ Accepted(game, c)
               /\ h.state = "PilePicked"
               /\ Len(h.pileOfCards) = Len(game.pileOfCards) - 1
               /\ h.pileOfCards = pop(game.pileOfCards)
               /\ h.pickedCard = top(game.pileOfCards)
               /\ h.turn = game.turn
               /\ h.burnedCards = game.burnedCards
               /\ h.players = game.players
\* a card has been picked from the draw pile of a started game: the pile is
\* one card short of the cards left after the deal
C15_Witness ==
    /\ game.state = "PilePicked"
    /\ game.pickedCard \in Cards
    /\ game.pickedCard \notin SeqSet(game.pileOfCards)
    /\ Len(game.pileOfCards) = PileExtra - 1
    /\ game.burnedCards = << >>

\* C16: in PickBurn, a PICK_CARD_FROM_BURNED by the user at the current turn
\* while the burn pile is empty, and a PICK_CARD_FROM_PILE by that user while
\* the draw pile is empty, is rejected with the empty-pile error; the phase
\* stays PickBurn and the picked card stays null.
C16_EmptyPilePick ==
    \A c \in SimpleCalls("PICK_CARD_FROM_BURNED") \cup SimpleCalls("PICK_CARD_FROM_PILE") :
        (/\ game.state = "PickBurn"
         /\ IsCurrentTurnUser(game, c.userId)
         /\ \/ c.action = "PICK_CARD_FROM_BURNED" /\ isEmpty(game.burnedCards)
            \/ c.action = "PICK_CARD_FROM_PILE" /\ isEmpty(game.pileOfCards))
        => /\ action(game, c).res = "Empty pile"
           /\ action(game, c).g.state = "PickBurn"
           /\ action(game, c).g.pickedCard = Null
\* right after the start the burn pile is empty and the user at turn asks for
\* its top card
C16_Witness ==
    /\ game.state = "PickBurn"
    /\ isEmpty(game.burnedCards)
    /\ game.pickedCard = Null
    /\ \E c \in SimpleCalls("PICK_CARD_FROM_BURNED") :
           /\ IsCurrentTurnUser(game, c.userId)
           /\ action(game, c).res = "Empty pile"
           /\ action(game, c).g = game

\* the phase the claim names for each ability
AbilityPhase(ability) ==
    CASE ability = "EXCHANGE_HAND_WITH_OTHER" -> "ExchangeHandWithOther"
      [] ability = "SHOW_ONE_HAND_CARD" -> "ShowOneHandCard"
      [] ability = "SHOW_ONE_OTHER_HAND_CARD" -> "ShowOneOtherHandCard"
      [] ability = "NO_ABILITY" -> "Burn"
\* C17: an accepted USE_ABILITY in PilePicked or BurnedPicked keeps the picked
\* card, marks it as used, and moves to the phase of the card's ability:
\* ExchangeHandWithOther, ShowOneHandCard or ShowOneOtherHandCard for the
\* matching ability, Burn when the card has no ability; no other phase.
C17_AbilityDispatch ==
    \A c \in SimpleCalls("USE_ABILITY") :
        (game.state \in {"PilePicked", "BurnedPicked"} /\ Accepted(game, c))
        => LET h == action(game, c).g
           IN  /\ h.pickedCard = game.pickedCard
               /\ game.pickedCard \in h.used
               /\ h.used = game.used \cup {game.pickedCard}
               /\ h.state = AbilityPhase(Ability(game.pickedCard))
               /\ [h EXCEPT !.state = game.state, !.used = game.used] = game
\* the user at turn uses a picked card that has no ability and Burn follows
\* at once
C17_Witness ==
    /\ game.state = "PilePicked"
    /\ Ability(game.pickedCard) = "NO_ABILITY"
    /\ game.pickedCard \notin game.used
    /\ \E c \in SimpleCalls("USE_ABILITY") :
           /\ IsCurrentTurnUser(game, c.userId)
           /\ Accepted(game, c)
           /\ action(game, c).g.state = "Burn"
           /\ game.pickedCard \in action(game, c).g.used

\* C18: in every phase, a LEAVE of a seated user is not refused by the phase
\* gate: it is accepted, and afterwards the user is not seated, the number of
\* seated users is one lower, and the user's former seat can be joined again.
C18_LeaveVacatesSeat ==
    \A c \in SimpleCalls("LEAVE") :
        isJoinedAsPlayer(game, c.userId)
        => LET h == action(game, c).g
               seat == game.userPlayer[c.userId]
           IN  /\ action(game, c).res # "Action is not allowed in current state"
               /\ Accepted(game, c)
               /\ ~isJoinedAsPlayer(h, c.userId)
               /\ numberOfPlayers(h) = numberOfPlayers(game) - 1
               /\ joinAsPlayerAction(h, c.userId, seat).res = "ok"

\* the edges of the phase graph the claim states
PickedPhases == {"PilePicked", "BurnedPicked"}
AbilityPhases == {"ExchangeHandWithOther", "ShowOneHandCard", "ShowOneOtherHandCard"}
PhaseEdges ==
    {<< "BeginOfGame", "RoundStart" >>, << "RoundStart", "PickBurn" >>,
     << "Burn", "EndRound" >>, << "EndRound", "PickBurn" >>, << "EndRound", "EndOfGame" >>}
        \cup { << "PickBurn", p >> : p \in PickedPhases }
        \cup { << p, q >> : p \in PickedPhases, q \in AbilityPhases \cup {"Burn"} }
        \cup { << p, "Burn" >> : p \in AbilityPhases }
\* C19: every change of phase follows an edge of the phase graph (the step from
\* BeginOfGame is made by START_GAME, the one from RoundStart by the internal
\* START_ROUND within the same call); a call changes the phase in no other way;
\* the phase of a new game is BeginOfGame; and in EndOfGame no call changes
\* the phase (no call reaches EndOfGame: its gate is applied to the games in
\* Burn, the last phase the calls reach, with the phase set to EndOfGame).
C19_PhaseGraph ==
    /\ game.state = "BeginOfGame"
    /\ [] EachCall(game, LAMBDA c :
              LET out == action(game, c)
                  ps == << game.state >> \o out.path
              IN  /\ \A i \in 1 .. (Len(ps) - 1) : << ps[i], ps[i + 1] >> \in PhaseEdges
                  /\ out.g.state = ps[Len(ps)]
                  /\ (Len(ps) > 1 /\ game.state = "BeginOfGame") => c.action = "START_GAME")
    /\ [](game.state = "Burn"
             => EachCall(game, LAMBDA c :
                    action([game EXCEPT !.state = "EndOfGame"], c).g.state = "EndOfGame"))
\* Burn has been reached along the edges of the start, of the pick and of the
\* use of a card without ability; were the phase EndOfGame, its gate would
\* refuse the user at turn
C19_Witness ==
    /\ game.state = "Burn"
    /\ game.pickedCard \in game.used
    /\ \E c \in SimpleCalls("PICK_CARD_FROM_PILE") :
           /\ PassesValidator(game, c)
           /\ action([game EXCEPT !.state = "EndOfGame"], c).res
                  = "Action is not allowed in current state"

\* the internal-only codes and the codes a client sends with a user id
InternalOnlyActions == {"START_ROUND", "DISTRIBUTE_CARD", "SELECT_FIRST_TURN", "NEXT_TURN"}
ClientActions ==
    {"JOIN_AS_PLAYER", "LEAVE", "BURN_ONE_HAND_CARD", "PICK_CARD_FROM_PILE",
     "PICK_CARD_FROM_BURNED", "EXCHANGE_PICK_WITH_HAND", "EXCHANGE_HAND_WITH_OTHER",
     "SHOW_ONE_HAND_CARD", "SHOW_ONE_OTHER_HAND_CARD", "PASS", "START_GAME", "RESTART"}
\* the actor a client action is meant for: the leader for start and restart, any
\* user for join and leave, the user at the current turn for the others
AuthorizedActor(g, a, u) ==
    /\ u \in Users
    /\ CASE a \in {"START_GAME", "RESTART"} -> u = g.leader
          [] a \in {"JOIN_AS_PLAYER", "LEAVE"} -> TRUE
          [] OTHER -> IsCurrentTurnUser(g, u)
\* C20: the leader-based, user-identified and turn-based buckets share no code
\* and hold none of the internal-only codes; an internal-only action passes the
\* validator exactly when it carries no actor id; and every action a client
\* sends with a user id (BURN_ONE_HAND_CARD among them) passes the validator
\* for its authorized actor.
C20_ValidatorBuckets ==
    /\ LEADER_BASED_ACTIONS \cap USER_BASED_ACTION = {}
    /\ LEADER_BASED_ACTIONS \cap USER_TURN_BASED_ACTION = {}
    /\ USER_BASED_ACTION \cap USER_TURN_BASED_ACTION = {}
    /\ InternalOnlyActions \subseteq
           INTERNAL_BASED_ACTION
               \ (LEADER_BASED_ACTIONS \cup USER_BASED_ACTION \cup USER_TURN_BASED_ACTION)
    /\ \A a \in InternalOnlyActions, u \in Actors :
           PassesValidator(game, Call(a, u)) <=> u = Undefined
    /\ \A a \in ClientActions, u \in Users :
           AuthorizedActor(game, a, u) => PassesValidator(game, Call(a, u))

\* the cards an exchange may name in a seat: those of its hand, none for a
\* seat index outside the game
NamedCards(g, seat) == IF seat \in Seats THEN Hand(g, seat) ELSE {Undefined}
\* in h the hands of the two seats hold each other's named card
HandsSwapped(g, h, seat, card, other, otherCard) ==
    /\ h.players[seat] = (g.players[seat] \ {card}) \cup {otherCard}
    /\ h.players[other] = (g.players[other] \ {otherCard}) \cup {card}
    /\ Cardinality(h.players[seat]) = Cardinality(g.players[seat])
    /\ Cardinality(h.players[other]) = Cardinality(g.players[other])
\* in h the named hand card is the picked card and the picked card is in the hand
PickSwapped(g, h, seat, card) ==
    /\ h.pickedCard = card
    /\ h.players[seat] = (g.players[seat] \ {card}) \cup {g.pickedCard}
\* C21: an exchangeHandWithOther of the user at turn that names a card of the
\* own hand and a card of another seat's hand succeeds with the two cards
\* swapped between the hands and the phase Burn, and is rejected without a
\* change when it names the own seat or an invalid seat index; an
\* exchangePickWithHandAction of the user at turn that succeeds leaves the
\* named hand card and the picked card swapped and the phase Burn; and every
\* exchange call accepted through Game.action ends in Burn.
C21_ExchangeEffect ==
    /\ game.state = "ExchangeHandWithOther"
       => \A u \in Users, p \in SeatInputs :
              IsCurrentTurnUser(game, u)
              => \A card \in Hand(game, SeatOf(game, u)), otherCard \in NamedCards(game, p) :
                     LET out == exchangeHandWithOther(game, u, card, p, otherCard)
                     IN  IF p \notin Seats \/ p = SeatOf(game, u)
                         THEN out.res \in InvalidActionErrors /\ out.g = game
                         ELSE /\ out.res = "ok"
                              /\ HandsSwapped(game, out.g, SeatOf(game, u), card, p, otherCard)
                              /\ out.g.state = "Burn"
    /\ (game.state \in {"PilePicked", "BurnedPicked"} /\ game.pickedCard # Null)
       => \A u \in Users :
              IsCurrentTurnUser(game, u)
              => \A card \in Hand(game, SeatOf(game, u)) :
                     LET out == exchangePickWithHandAction(game, u, card)
                     IN  out.res = "ok"
                         => /\ PickSwapped(game, out.g, SeatOf(game, u), card)
                            /\ out.g.state = "Burn"
    /\ \A c \in ExchangeCalls(game) \cup CardCalls(game, "EXCHANGE_PICK_WITH_HAND") :
           Accepted(game, c) => action(game, c).g.state = "Burn"

\* the two kinds of pick request and the pile each one takes from
PickCalls == SimpleCalls("PICK_CARD_FROM_PILE") \cup SimpleCalls("PICK_CARD_FROM_BURNED")
PileOf(g, c) == IF c.action = "PICK_CARD_FROM_PILE" THEN g.pileOfCards ELSE g.burnedCards
\* C22: every call is one step of the game, so two pick requests that race
\* arrive one after the other, in either order and from any two clients: at
\* most one of them is accepted; an accepted first request takes exactly the
\* top card of its pile into pickedCard and the second request changes nothing;
\* a rejected first request leaves the game as it was for the second one.
C22_SerializedPicks ==
    [] \A c1 \in PickCalls, c2 \in PickCalls :
           LET o1 == action(game, c1)
               o2 == action(o1.g, c2)
           IN  /\ ~(o1.res = "ok" /\ o2.res = "ok")
               /\ o1.res = "ok"
                  => /\ o1.g.pickedCard = top(PileOf(game, c1))
                     /\ PileOf(o1.g, c1) = pop(PileOf(game, c1))
                     /\ o2.g = o1.g
               /\ o1.res # "ok" => o1.g = game
\* a pick of the user at turn has been accepted in a game of several seated
\* users, and a second pick request of that user and one of another seated user
\* are both refused
C22_Witness ==
    /\ game.state = "PilePicked"
    /\ game.pickedCard \in Cards
    /\ \E u1 \in joined, u2 \in joined :
           /\ u1 # u2
           /\ IsCurrentTurnUser(game, u1)
           /\ ~Accepted(game, Call("PICK_CARD_FROM_PILE", u1))
           /\ ~Accepted(game, Call("PICK_CARD_FROM_PILE", u2))
           /\ ~Accepted(game, Call("PICK_CARD_FROM_BURNED", u1))

\* ============================================================ the registry
\* GameSocketService: one handler per client event, each an operator from the
\* service's maps s = [created, games, userGames] to an outcome [res, s]: res is
\* "ok" or the message of the error the handler reported, s the maps as the
\* handler left them.  Each handler runs to its end before the next event.

\* games a bounded run constructs
MaxGames == 2

Svc == [created |-> created, games |-> games, userGames |-> userGames]
SOk(s) == [res |-> "ok", s |-> s]
SErr(s, e) == [res |-> e, s |-> s]

\* ~~x: the integer of x, 0 for undefined
ToInt(x) == IF x = Undefined THEN 0 ELSE x
\* Game.id of the next Game constructed
NextId(s) == Len(s.created) + 1
\* Game.numberOfUserPlayers: the seated count
numberOfUserPlayers(g) == numberOfPlayers(g)

isInGame(s, userId) == s.userGames[userId] # Null
isGameAvailable(s, gameId) == ToInt(gameId) \in s.games

registerClient(s, userId, id) == [s EXCEPT !.userGames[userId] = id]

deleteEmptyGame(s, id) ==
    IF numberOfUserPlayers(s.created[id]) = 0 THEN [s EXCEPT !.games = @ \ {id}] ELSE s

\* the error of game.doAction(LEAVE) leaves unregisterClient before the maps
\* are touched
unregisterClient(s, userId, id) ==
    LET out == action(s.created[id], Call("LEAVE", userId))
        s1 == [s EXCEPT !.created[id] = out.g]
    IN  IF out.res # "ok" THEN SErr(s1, out.res)
        ELSE SOk(deleteEmptyGame([s1 EXCEPT !.userGames[userId] = Null], id))

createGameEvent(s, userId, seats) ==
    IF isInGame(s, userId) THEN SErr(s, "User is already in game")
    ELSE IF ~isValidMaxNumberOfPlayers(seats)
         THEN SErr(s, "Invalid maximum number of players")
    ELSE SOk(registerClient([s EXCEPT !.created = Append(@, NewGame),
                                      !.games = @ \cup {NextId(s)}],
                            userId, NextId(s)))

\* game.doAction(JOIN_AS_PLAYER, {userId, playerId}) and, if it returns, registerClient
joinAndRegister(s, userId, id, playerId) ==
    LET out == action(s.created[id], [Call("JOIN_AS_PLAYER", userId) EXCEPT !.playerId = playerId])
        s1 == [s EXCEPT !.created[id] = out.g]
    IN  IF out.res # "ok" THEN SErr(s1, out.res) ELSE SOk(registerClient(s1, userId, id))

\* faulty variant: a user that is in a game may join another one
joinGameEvent_noInGameCheck(s, userId, gameId, playerId) ==
    IF ~isGameAvailable(s, gameId) THEN SErr(s, "Game not found.")
    ELSE joinAndRegister(s, userId, gameId, playerId)

joinGameEvent(s, userId, gameId, playerId) ==
    IF isInGame(s, userId) THEN SErr(s, "User is already in game")
    ELSE IF ~isGameAvailable(s, gameId) THEN SErr(s, "Game not found.")
    ELSE joinAndRegister(s, userId, gameId, playerId)

\* games.forEach keeps the last game that is not full, in the order of insertion
LastOpenGame(s) ==
    LET open == { i \in s.games : ~isFull(s.created[i]) }
    IN  IF open = {} THEN Undefined ELSE CHOOSE i \in open : \A j \in open : j <= i

\* the payload of the queue's JOIN_AS_PLAYER names no seat
joinQueueEvent(s, userId) ==
    IF LastOpenGame(s) # Undefined THEN joinAndRegister(s, userId, LastOpenGame(s), Undefined)
    ELSE IF s.games # {} THEN SErr(s, "All games are full create new game...")
    ELSE SErr(s, "Be the first one to create a new game!")

leaveGameEvent(s, userId) ==
    IF ~isInGame(s, userId) THEN SErr(s, "User is not in game")
    ELSE unregisterClient(s, userId, s.userGames[userId])

onDisconnect(s, userId) ==
    IF isInGame(s, userId) THEN unregisterClient(s, userId, s.userGames[userId]) ELSE SOk(s)

\* a new connection of a user that is in a game registers the client again
reconnect(s, userId) ==
    IF isInGame(s, userId) THEN SOk(registerClient(s, userId, s.userGames[userId])) ELSE SOk(s)

\* ------------------------------------------------------------ event inputs
\* numberOfPlayers of a create_game: the seat count of the model's games, and
\* one below and one above the range the constructor accepts
NumberOfPlayersInputs ==
    {maxNumberOfPlayers, MIN_NUMBER_OF_PLAYERS - 1, MAX_NUMBER_OF_PLAYERS + 1}
\* gameId of a join_game: an id a game can have, or absent
GameIdInputs == (1 .. MaxGames) \cup {Undefined}

SetSvc(s) ==
    /\ created' = s.created
    /\ games' = s.games
    /\ userGames' = s.userGames
    /\ UNCHANGED << game, joined >>

InitService ==
    /\ game = NewGame
    /\ joined = {}
    /\ NoService

CreateGame ==
    \E u \in Users, n \in NumberOfPlayersInputs :
        /\ Len(created) < MaxGames
        /\ SetSvc(createGameEvent(Svc, u, n).s)
JoinGame ==
    \E u \in Users, i \in GameIdInputs, p \in SeatInputs : SetSvc(joinGameEvent(Svc, u, i, p).s)
JoinQueue ==
    \E u \in Users : SetSvc(joinQueueEvent(Svc, u).s)
LeaveGame ==
    \E u \in Users : SetSvc(leaveGameEvent(Svc, u).s)
Disconnect ==
    \E u \in Users : SetSvc(onDisconnect(Svc, u).s)
Reconnect ==
    \E u \in Users : SetSvc(reconnect(Svc, u).s)

NextService ==
    \/ CreateGame
    \/ JoinGame
    \/ JoinQueue
    \/ LeaveGame
    \/ Disconnect
    \/ Reconnect

SpecService == InitService /\ [][NextService]_vars

\* the games, registered or not, in which the user holds a seat
SeatedIn(s, userId) == { i \in 1 .. Len(s.created) : isJoinedAsPlayer(s.created[i], userId) }
\* the maps after an unregisterClient that went through
Unregistered(s, r, userId) ==
    LET id == s.userGames[userId]
    IN  /\ r.userGames[userId] = Null
        /\ id \notin r.games <=> numberOfUserPlayers(r.created[id]) = 0
        /\ \A v \in Users : r.userGames[v] # Null => r.userGames[v] \in r.games

\* C23: no user is mapped to a game that is not in the registry and a game
\* that is not in the registry has no seated user; a leave_game and a
\* disconnect of a user who is in a game end with the user mapped to no game,
\* with the user's game out of the registry exactly if its seated count is
\* zero, and with no user mapped to a game out of the registry.
C23_SessionCleanup ==
    /\ \A v \in Users : userGames[v] # Null => userGames[v] \in games
    /\ \A i \in 1 .. Len(created) : i \notin games => numberOfUserPlayers(created[i]) = 0
    /\ \A u \in Users :
           isInGame(Svc, u)
           => /\ Unregistered(Svc, leaveGameEvent(Svc, u).s, u)
              /\ Unregistered(Svc, onDisconnect(Svc, u).s, u)

====
